---- MODULE Spec2Model ----
(***************************************************************************)
(* A model of blackknifeforth (src/blackknifeforth.c): the scanner, the    *)
(* value parser, the growable stack, the dictionary, the dual-mode         *)
(* dispatcher proc_next, the recursive interpreter execute_word and the    *)
(* native word set.                                                        *)
(*                                                                         *)
(* Text is a sequence of one-character strings.  A cell of the untagged C  *)
(* union Value is a record [t, v]: t names the union member that was       *)
(* written last, v is what was written.  Reading a cell through another    *)
(* member than the one written is a reinterpretation of its bytes; the     *)
(* model resolves every such read with an oracle (see Oracles).            *)
(*                                                                         *)
(* Left out: the text written to stdout/stderr, the scanner's line/column  *)
(* counters and the verbose flag (diagnostics only), and the auxiliary     *)
(* stack rs, which the engine only ever clears.                            *)
(***************************************************************************)
EXTENDS Integers, Sequences, FiniteSets, TLC

(***************************************************************************)
(* Bounds of the exploration.                                              *)
(***************************************************************************)
\* nesting depth of execute_word that the host call stack is taken to hold
MaxCallDepth == 6

(***************************************************************************)
(* Characters (<ctype.h>, <strings.h>)                                     *)
(***************************************************************************)
\* the terminating NUL byte of a C string
NUL == "NUL"

isspace(c) == c \in {" ", "\n", "\t", "\r", "\f"}

isdigit(c) == c \in {"0", "1", "2", "3", "4", "5", "6", "7", "8", "9"}

\* c - '0' for a digit c
DigitVal(c) ==
    CASE c = "0" -> 0 [] c = "1" -> 1 [] c = "2" -> 2 [] c = "3" -> 3
      [] c = "4" -> 4 [] c = "5" -> 5 [] c = "6" -> 6 [] c = "7" -> 7
      [] c = "8" -> 8 [] c = "9" -> 9

Upper == <<"A","B","C","D","E","F","G","H","I","J","K","L","M",
           "N","O","P","Q","R","S","T","U","V","W","X","Y","Z">>
Lower == <<"a","b","c","d","e","f","g","h","i","j","k","l","m",
           "n","o","p","q","r","s","t","u","v","w","x","y","z">>

tolower(c) ==
    IF \E i \in 1..26 : Upper[i] = c
    THEN Lower[CHOOSE i \in 1..26 : Upper[i] = c]
    ELSE c

\* strncasecmp(a, b, n) == 0, for texts a and b that both hold n characters
strncasecmp_eq(a, b, n) ==
    \A i \in 1..n : tolower(a[i]) = tolower(b[i])

(***************************************************************************)
(* StringView: text[i] of the C code is TextAt(text, i); the byte behind   *)
(* the last character of a buffer is its terminating NUL.                  *)
(***************************************************************************)
TextAt(text, i) == IF i + 1 <= Len(text) THEN text[i + 1] ELSE NUL

(***************************************************************************)
(* Cells                                                                   *)
(***************************************************************************)
NULL == 0

Num(n) == [t |-> "num", v |-> n]
Ch(c) == [t |-> "ch", v |-> c]
\* execution token: the index of the word in the dictionary, NULL for none
Xt(w) == [t |-> "xt", v |-> w]
\* address of cell number i (from 1) of the body of word w
Addr(w, i) == [t |-> "addr", v |-> <<w, i>>]

(***************************************************************************)
(* Value parsing                                                           *)
(***************************************************************************)
RECURSIVE value_read_num_loop(_, _, _, _)
\* the for loop of value_read_num: i is the index, n the accumulator
value_read_num_loop(text, len, i, n) ==
    IF i >= len THEN [ok |-> TRUE, n |-> n]
    ELSE IF ~isdigit(TextAt(text, i)) THEN [ok |-> FALSE, n |-> n]
    ELSE value_read_num_loop(text, len, i + 1,
                             n * 10 + DigitVal(TextAt(text, i)))

value_read_num(text, len) ==
    LET neg == TextAt(text, 0) = "-"
        r == value_read_num_loop(text, len, IF neg THEN 1 ELSE 0, 0)
    IN [ok |-> r.ok, val |-> Num(IF neg THEN 0 - r.n ELSE r.n)]

value_read_ch(text, len) ==
    IF len > 3 \/ TextAt(text, 2) # "'"
    THEN [ok |-> FALSE, val |-> Ch(NUL)]
    ELSE [ok |-> TRUE, val |-> Ch(TextAt(text, 1))]

\* value_read(sv, &ok): text is sv.text (it runs on behind the token), len
\* is sv.len
value_read(text, len) ==
    IF TextAt(text, 0) = "-" \/ isdigit(TextAt(text, 0))
    THEN value_read_num(text, len)
    ELSE IF TextAt(text, 0) = "'"
    THEN value_read_ch(text, len)
    ELSE [ok |-> FALSE, val |-> Num(0)]

(***************************************************************************)
(* DataStack: contents holds the count live cells, capacity the allocated  *)
(* size.                                                                   *)
(***************************************************************************)
ds_init == [contents |-> <<>>, capacity |-> 0]

ds_count(ds) == Len(ds.contents)

ds_push(ds, c) ==
    [contents |-> Append(ds.contents, c),
     capacity |-> IF ds_count(ds) + 1 > ds.capacity
                  THEN (IF ds.capacity = 0 THEN 8 ELSE ds.capacity * 2)
                  ELSE ds.capacity]

ds_push_num(ds, n) == ds_push(ds, Num(n))

ds_push_xt(ds, w) == ds_push(ds, Xt(w))

\* (variant: the empty stack is not reported)
ds_pop_unreported(ds, out) ==
    IF ds_count(ds) = 0
    THEN [err |-> FALSE, ds |-> ds, out |-> out]
    ELSE [err |-> FALSE,
          ds |-> [ds EXCEPT !.contents = SubSeq(@, 1, Len(@) - 1)],
          out |-> ds.contents[ds_count(ds)]]
\* ds_pop(ds, &out): err is the return value, out is left alone on underflow
ds_pop(ds, out) ==
    IF ds_count(ds) = 0
    THEN [err |-> TRUE, ds |-> ds, out |-> out]
    ELSE [err |-> FALSE,
          ds |-> [ds EXCEPT !.contents = SubSeq(@, 1, Len(@) - 1)],
          out |-> ds.contents[ds_count(ds)]]

\* index of the top cell, NULL when the stack is empty
ds_top(ds) == IF ds_count(ds) = 0 THEN NULL ELSE ds_count(ds)

(***************************************************************************)
(* Words and the dictionary.  The dictionary is the array of all words     *)
(* ever allocated, in allocation order; a Word* is an index into it and    *)
(* prev links each word to the one defined before it.                      *)
(***************************************************************************)
FLAG_code == "code"
FLAG_immediate == "immediate"
FLAG_hidden == "hidden"
FLAG_comp_only == "comp_only"

check_flag(flags, f) == f \in flags

\* as.code is the name of the native function, as.colon the body
word_new(name, flags) ==
    [prev |-> NULL, name |-> name, flags |-> flags,
     code |-> "none", colon |-> ds_init]

word_code_new(name, body) ==
    [word_new(name, {FLAG_code}) EXCEPT !.code = body]

RECURSIVE word_list_find_from(_, _, _, _)

\* word_list_find_from with the names compared by strncmp
word_list_find_from_strncmp(words, w, text, len) ==
    IF w = NULL THEN NULL
    ELSE IF w \notin 1..Len(words) THEN w
    ELSE IF /\ ~check_flag(words[w].flags, FLAG_hidden)
            /\ Len(words[w].name) = len
            /\ \A i \in 1..len : text[i] = words[w].name[i]
    THEN w
    ELSE word_list_find_from(words, words[w].prev, text, len)

\* the while loop of word_list_find, w being the word looked at
word_list_find_from(words, w, text, len) ==
    IF w = NULL THEN NULL
    ELSE IF w \notin 1..Len(words) THEN w
    ELSE IF /\ ~check_flag(words[w].flags, FLAG_hidden)
            /\ Len(words[w].name) = len
            /\ strncasecmp_eq(text, words[w].name, len)
    THEN w
    ELSE word_list_find_from(words, words[w].prev, text, len)

\* the result of a search that never ends
ENDLESS == -2

RECURSIVE word_list_find_spins(_, _, _, _, _)
\* the while loop of word_list_find, looking at w, is still running after
\* it has moved on n more times
word_list_find_spins(words, w, text, len, n) ==
    IF w \notin 1..Len(words) THEN FALSE
    ELSE IF /\ ~check_flag(words[w].flags, FLAG_hidden)
            /\ Len(words[w].name) = len
            /\ strncasecmp_eq(text, words[w].name, len)
    THEN FALSE
    ELSE IF n = 0 THEN TRUE
    ELSE word_list_find_spins(words, words[w].prev, text, len, n - 1)

\* word_list_find(last, name) with name = {text, len}.  A search that has
\* looked at more words than there are is going round a cycle of prev
\* pointers and never ends; there is no cycle while every prev points at
\* an older word.
word_list_find(words, last, text, len) ==
    IF /\ \E w \in 1..Len(words) : words[w].prev \notin 0..w - 1
       /\ word_list_find_spins(words, last, text, len, Len(words))
    THEN ENDLESS
    ELSE word_list_find_from(words, last, text, len)

(***************************************************************************)
(* Scanner: source is the text from source.text on (source.len is its      *)
(* length), offset the number of characters of it already read.            *)
(***************************************************************************)
scan_init(source) == [source |-> source, offset |-> 0]

scan_peek(s) == TextAt(s.source, s.offset)

scan_end(s) == s.offset >= Len(s.source)

scan_advance(s) ==
    IF scan_end(s) THEN s ELSE [s EXCEPT !.offset = @ + 1]

RECURSIVE scan_skip_space(_)
\* the while loop of scan_sync
scan_skip_space(s) ==
    IF isspace(scan_peek(s)) /\ ~scan_end(s)
    THEN scan_skip_space(scan_advance(s))
    ELSE s

scan_sync(s) ==
    LET t == scan_skip_space(s)
    IN [source |-> SubSeq(t.source, t.offset + 1, Len(t.source)),
        offset |-> 0]

RECURSIVE scan_take_word(_)
\* the while loop of scan_word
scan_take_word(s) ==
    IF ~isspace(scan_peek(s)) /\ ~scan_end(s)
    THEN scan_take_word(scan_advance(s))
    ELSE s

\* scan_word(&p->scan): the scanner afterwards; the token it returns is
\* scan_peek_text of that scanner, {text = source.text, len = offset}
scan_word(s) == scan_take_word(scan_sync(s))

\* the characters of the token just scanned
scan_peek_text(s) == SubSeq(s.source, 1, s.offset)

(***************************************************************************)
(* Processor                                                               *)
(***************************************************************************)
\* the outcomes of an access outside the objects of the program: the
\* process is killed, or it goes on with what happens to be in memory
UB_none == "none"
UB_wild == "wild"
UB_segv == "segv"
\* the process is caught in a loop that never ends
UB_hang == "hang"

\* the process is still running
Alive(p) == p.ub \notin {UB_segv, UB_hang}

\* an access outside the objects of the program, resolved by the oracle o
\* (asked records that the oracle was consulted)
Undefined(p, o) ==
    [p EXCEPT !.ub = IF o.segv THEN UB_segv ELSE UB_wild, !.asked = TRUE]

proc_compile_mode(p) == p.comp_word # NULL

load_source(p, source) == [p EXCEPT !.scan = scan_init(source)]

\* error, error_undef and error_comp_only differ in the message only
error(p) == [p EXCEPT !.panic = TRUE]

error_undef(p) == [p EXCEPT !.panic = TRUE]

\* (variant: the misuse goes unreported)
error_comp_only_silent(p) == p
error_comp_only(p) == [p EXCEPT !.panic = TRUE]

\* proc_pop(p): the processor afterwards and the cell returned
proc_pop(p) ==
    LET r == ds_pop(p.ds, Num(0))
        q == [p EXCEPT !.ds = r.ds]
    IN [p |-> IF ~p.panic /\ r.err THEN error(q) ELSE q,
        c |-> r.out]

(***************************************************************************)
(* Reading a cell through a member of the union.  A cell written through   *)
(* another member is reinterpreted: its bytes come from the oracle o.      *)
(***************************************************************************)
\* a pointer that points at no object of the program
WILD == -1

\* c.num
as_num(c, o) == IF c.t = "num" THEN c.v ELSE o.num

\* c.xt: the word pointed at, NULL or WILD
as_xt(c) ==
    IF c.t = "xt" THEN c.v
    ELSE IF c.t = "num" /\ c.v = 0 THEN NULL
    ELSE WILD

\* the address in c names an existing cell of a word's body
IsCellAddr(p, c) ==
    /\ c.t = "addr"
    /\ c.v[1] \in 1..Len(p.words)
    /\ c.v[2] \in 1..ds_count(p.words[c.v[1]].colon)

\* *c.addr: the processor afterwards and the cell read.  The address of a
\* word is the address of its first member, prev.
Deref(p, c, o) ==
    IF IsCellAddr(p, c)
    THEN [p |-> p, c |-> p.words[c.v[1]].colon.contents[c.v[2]]]
    ELSE IF c.t = "xt" /\ c.v \in 1..Len(p.words)
              /\ p.words[c.v].prev # WILD
    THEN [p |-> p, c |-> Xt(p.words[c.v].prev)]
    ELSE [p |-> Undefined(p, o), c |-> o.cell]

\* *c.addr = val.  A store through a cell that holds no pointer goes where
\* its bytes point: it faults, lands outside the words, or lands on the cell
\* o.hit of a body.
Assign(p, c, val, o) ==
    IF IsCellAddr(p, c)
    THEN [p EXCEPT !.words[c.v[1]].colon.contents[c.v[2]] = val]
    ELSE IF c.t = "xt" /\ c.v \in 1..Len(p.words)
    THEN [p EXCEPT !.words[c.v].prev = as_xt(val)]
    ELSE IF ~o.segv /\ IsCellAddr(p, o.hit)
    THEN [Undefined(p, o) EXCEPT
              !.words[o.hit.v[1]].colon.contents[o.hit.v[2]] = val]
    ELSE Undefined(p, o)

(***************************************************************************)
(* Two's complement bit operations on integers (& | ^ of the C code)       *)
(***************************************************************************)
RECURSIVE BitAnd(_, _)
BitAnd(a, b) ==
    IF a = 0 \/ b = 0 THEN 0
    ELSE IF a = -1 THEN b
    ELSE IF b = -1 THEN a
    ELSE ((a % 2) * (b % 2)) + 2 * BitAnd(a \div 2, b \div 2)

RECURSIVE BitOr(_, _)
BitOr(a, b) ==
    IF a = 0 THEN b
    ELSE IF b = 0 THEN a
    ELSE IF a = -1 \/ b = -1 THEN -1
    ELSE (IF a % 2 = 1 \/ b % 2 = 1 THEN 1 ELSE 0)
         + 2 * BitOr(a \div 2, b \div 2)

RECURSIVE BitXor(_, _)
BitXor(a, b) ==
    IF a = 0 THEN b
    ELSE IF b = 0 THEN a
    ELSE IF a = -1 /\ b = -1 THEN 0
    ELSE (IF a % 2 # b % 2 THEN 1 ELSE 0)
         + 2 * BitXor(a \div 2, b \div 2)

\* #define flag(cond) ((cond) ? -1 : 0)
flag(cond) == IF cond THEN -1 ELSE 0

(***************************************************************************)
(* The native words.  Each takes the processor p (and the oracle o where   *)
(* it reads a cell through a member) and yields the processor afterwards.  *)
(***************************************************************************)
\* p->ip == NULL: the cursor is a pair <<word, cell number>>
IP_NULL == <<NULL, NULL>>

\* p->w_exit and p->w_push: the first two words load_builtin creates
W_EXIT == 1
W_PUSH == 2

\* scan_word(&p->scan) from inside a native word; late records that the
\* scanner was advanced while the panic flag was already set
proc_scan_word(p) ==
    [p EXCEPT !.scan = scan_word(@), !.late = @ \/ p.panic]

\* word_list_add(&p->dict, w) for a freshly allocated word w
word_list_add(p, w) ==
    [p EXCEPT !.words = Append(@, [w EXCEPT !.prev = p.dict]),
              !.dict = Len(p.words) + 1]

\* ds_push(&p->ds, c)
push(p, c) == [p EXCEPT !.ds = ds_push(@, c)]

\* (variant: the value is appended without its marker)
proc_comp_push_bare(w, val) == [w EXCEPT !.colon = ds_push(@, val)]
\* proc_comp_push on a word record: the push marker, then the value
proc_comp_push(w, val) ==
    [w EXCEPT !.colon = ds_push(ds_push_xt(@, W_PUSH), val)]

\* w_define that leaves the new word visible
w_define_visible(p) ==
    LET q == proc_scan_word(p)
        w == word_new(scan_peek_text(q.scan), {})
    IN word_list_add([q EXCEPT !.comp_word = Len(p.words) + 1], w)

w_define(p) ==
    LET q == proc_scan_word(p)
        w == word_new(scan_peek_text(q.scan), {FLAG_hidden})
    IN word_list_add([q EXCEPT !.comp_word = Len(p.words) + 1], w)

w_end(p, o) ==
    IF p.comp_word = NULL THEN Undefined(p, o)
    ELSE [p EXCEPT !.words[p.comp_word].flags = @ \ {FLAG_hidden},
                   !.comp_word = NULL]

w_immediate(p, o) ==
    IF p.comp_word = NULL THEN Undefined(p, o)
    ELSE [p EXCEPT !.words[p.comp_word].flags = @ \cup {FLAG_immediate}]

w_quote(p, o) ==
    LET q == proc_scan_word(p)
        w == word_list_find(q.words, q.dict, q.scan.source, q.scan.offset)
    IN IF w = ENDLESS THEN [q EXCEPT !.ub = UB_hang]
       ELSE IF w = WILD THEN Undefined(q, o) ELSE push(q, Xt(w))

w_compile(p, o) ==
    LET r == proc_pop(p)
    IN IF r.p.comp_word = NULL THEN Undefined(r.p, o)
       ELSE [r.p EXCEPT !.words[r.p.comp_word].colon = ds_push(@, r.c)]

w_exit(p) == [p EXCEPT !.ip = IP_NULL]

w_constant(p) ==
    LET r == proc_pop(p)
        q == proc_scan_word(r.p)
        w == proc_comp_push(word_new(scan_peek_text(q.scan), {}), r.c)
    IN word_list_add(q, w)

\* w_variable with the address of the exit cell as the operand
w_variable_exit_cell(p) ==
    LET q == proc_scan_word(p)
        w == [word_new(scan_peek_text(q.scan), {}) EXCEPT !.colon =
                 ds_push(ds_push_xt(ds_push(ds_push_xt(@, W_PUSH),
                     Addr(Len(p.words) + 1, 3)), W_EXIT), Num(0))]
    IN word_list_add(q, w)

\* the body is [push, address of the last cell, exit, storage cell]
w_variable(p) ==
    LET q == proc_scan_word(p)
        tmp == Num(0)
        w0 == proc_comp_push(word_new(scan_peek_text(q.scan), {}), tmp)
        operand == ds_top(w0.colon)
        w1 == [w0 EXCEPT !.colon = ds_push(ds_push_xt(@, W_EXIT), tmp)]
        w2 == [w1 EXCEPT !.colon.contents[operand] =
                             Addr(Len(p.words) + 1, ds_top(w1.colon))]
    IN word_list_add(q, w2)

w_fetch(p, o) ==
    LET r == proc_pop(p)
    IN IF r.p.panic THEN r.p
       ELSE LET d == Deref(r.p, r.c, o)
            IN IF Alive(d.p) THEN push(d.p, d.c) ELSE d.p

w_store(p, o) ==
    LET r == proc_pop(p)
    IN IF r.p.panic THEN r.p
       ELSE LET r2 == proc_pop(r.p)
            IN Assign(r2.p, r.c, r2.c, o)

w_dup(p) ==
    LET r == proc_pop(p)
    IN push(push(r.p, r.c), r.c)

w_swap(p) ==
    LET r2 == proc_pop(p)
        r1 == proc_pop(r2.p)
    IN push(push(r1.p, r2.c), r1.c)

w_over(p) ==
    LET r2 == proc_pop(p)
        r1 == proc_pop(r2.p)
    IN push(push(push(r1.p, r1.c), r2.c), r1.c)

\* (variant: the third cell goes under the other two, not over them)
w_rot_back(p) ==
    LET r3 == proc_pop(p)
        r2 == proc_pop(r3.p)
        r1 == proc_pop(r2.p)
    IN push(push(push(r1.p, r3.c), r1.c), r2.c)
w_rot(p) ==
    LET r3 == proc_pop(p)
        r2 == proc_pop(r3.p)
        r1 == proc_pop(r2.p)
    IN push(push(push(r1.p, r2.c), r3.c), r1.c)

\* w_push that reads the cell behind the marker and leaves the cursor on
\* the marker
w_push_no_advance(p, o) ==
    IF p.ip = IP_NULL THEN Undefined(p, o)
    ELSE push(p, p.words[p.ip[1]].colon.contents[p.ip[2] + 1])

\* the cursor steps onto the cell behind the marker and that cell is pushed
w_push(p, o) ==
    IF p.ip = IP_NULL THEN Undefined(p, o)
    ELSE LET w == p.ip[1]
             i == p.ip[2] + 1
             q == [p EXCEPT !.ip = <<w, i>>]
         IN IF i <= ds_count(p.words[w].colon)
            THEN push(q, p.words[w].colon.contents[i])
            ELSE LET u == Undefined(q, o)
                 IN IF Alive(u) THEN push(u, o.cell) ELSE u

w_drop(p) == proc_pop(p).p

\* w_print, w_print_u32, w_print_ch: pop a cell and write it out
w_print(p) == proc_pop(p).p

\* w_endline and w_dump_ds only write
w_endline(p) == p

\* n1 op n2 for the operator of the native function fn (the runs explored
\* keep every result far inside the range of an i32)
Apply(fn, n1, n2) ==
    CASE fn = "w_add" -> n1 + n2
      [] fn = "w_sub" -> n1 - n2
      [] fn = "w_mul" -> n1 * n2
      [] fn = "w_div" -> n1 * n2
      [] fn = "w_less" -> flag(n1 < n2)
      [] fn = "w_less_eq" -> flag(n1 <= n2)
      [] fn = "w_greater" -> flag(n1 > n2)
      [] fn = "w_greater_eq" -> flag(n1 >= n2)
      [] fn = "w_equals" -> flag(n1 = n2)
      [] fn = "w_not_eq" -> flag(n1 # n2)
      [] fn = "w_and" -> BitAnd(n1, n2)
      [] fn = "w_or" -> BitOr(n1, n2)
      [] fn = "w_xor" -> BitXor(n1, n2)

\* (variant: the operands are taken in the order popped)
BinOp_as_popped(p, o, fn) ==
    LET r2 == proc_pop(p)
        r1 == proc_pop(r2.p)
        q == push(r1.p, Num(Apply(fn, as_num(r2.c, o), as_num(r1.c, o))))
    IN IF r1.c.t = "num" /\ r2.c.t = "num" THEN q
       ELSE [q EXCEPT !.asked = TRUE]
\* the two pops and the push that the binary operators share: n2 is popped
\* first, then n1, and n1 op n2 is pushed
BinOp(p, o, fn) ==
    LET r2 == proc_pop(p)
        r1 == proc_pop(r2.p)
        q == push(r1.p, Num(Apply(fn, as_num(r1.c, o), as_num(r2.c, o))))
    IN IF r1.c.t = "num" /\ r2.c.t = "num" THEN q
       ELSE [q EXCEPT !.asked = TRUE]

w_add(p, o) == BinOp(p, o, "w_add")
w_sub(p, o) == BinOp(p, o, "w_sub")
w_mul(p, o) == BinOp(p, o, "w_mul")
w_div(p, o) == BinOp(p, o, "w_div")
w_less(p, o) == BinOp(p, o, "w_less")
w_less_eq(p, o) == BinOp(p, o, "w_less_eq")
w_greater(p, o) == BinOp(p, o, "w_greater")
w_greater_eq(p, o) == BinOp(p, o, "w_greater_eq")
w_equals(p, o) == BinOp(p, o, "w_equals")
w_not_eq(p, o) == BinOp(p, o, "w_not_eq")
w_and(p, o) == BinOp(p, o, "w_and")
w_or(p, o) == BinOp(p, o, "w_or")
w_xor(p, o) == BinOp(p, o, "w_xor")

\* w->as.code(p) for the native function named fn
Native(p, fn, o) ==
    CASE fn = "w_exit" -> w_exit(p)
      [] fn = "w_push" -> w_push(p, o)
      [] fn = "w_define" -> w_define(p)
      [] fn = "w_quote" -> w_quote(p, o)
      [] fn = "w_end" -> w_end(p, o)
      [] fn = "w_compile" -> w_compile(p, o)
      [] fn = "w_immediate" -> w_immediate(p, o)
      [] fn = "w_constant" -> w_constant(p)
      [] fn = "w_variable" -> w_variable(p)
      [] fn = "w_fetch" -> w_fetch(p, o)
      [] fn = "w_store" -> w_store(p, o)
      [] fn = "w_dup" -> w_dup(p)
      [] fn = "w_swap" -> w_swap(p)
      [] fn = "w_drop" -> w_drop(p)
      [] fn = "w_over" -> w_over(p)
      [] fn = "w_rot" -> w_rot(p)
      [] fn = "w_print" -> w_print(p)
      [] fn = "w_print_u32" -> w_print(p)
      [] fn = "w_print_ch" -> w_print(p)
      [] fn = "w_endline" -> w_endline(p)
      [] fn = "w_dump_ds" -> w_endline(p)
      [] fn = "w_add" -> w_add(p, o)
      [] fn = "w_sub" -> w_sub(p, o)
      [] fn = "w_mul" -> w_mul(p, o)
      [] fn = "w_div" -> w_div(p, o)
      [] fn = "w_less" -> w_less(p, o)
      [] fn = "w_less_eq" -> w_less_eq(p, o)
      [] fn = "w_greater" -> w_greater(p, o)
      [] fn = "w_greater_eq" -> w_greater_eq(p, o)
      [] fn = "w_equals" -> w_equals(p, o)
      [] fn = "w_not_eq" -> w_not_eq(p, o)
      [] fn = "w_and" -> w_and(p, o)
      [] fn = "w_or" -> w_or(p, o)
      [] fn = "w_xor" -> w_xor(p, o)

(***************************************************************************)
(* The interpreter                                                         *)
(***************************************************************************)
RECURSIVE execute_word(_, _, _, _)
RECURSIVE run_body(_, _, _, _)

\* (variant: the cursor is left stopped when a colon word returns)
execute_word_stopped(p, w, o, depth) ==
    IF ~Alive(p) THEN p
    ELSE IF depth = 0 THEN [p EXCEPT !.ub = UB_segv]
    ELSE IF w \notin 1..Len(p.words) THEN Undefined(p, o)
    ELSE IF check_flag(p.words[w].flags, FLAG_code)
    THEN Native(p, p.words[w].code, o)
    ELSE IF ds_count(p.words[w].colon) = 0 THEN p
    ELSE LET r == run_body([p EXCEPT !.ip = <<w, 1>>], w, o, depth)
         IN IF Alive(r) THEN [r EXCEPT !.ip = IP_NULL] ELSE r
\* execute_word(p, w); depth is the room left on the host call stack
execute_word(p, w, o, depth) ==
    IF ~Alive(p) THEN p
    ELSE IF depth = 0 THEN [p EXCEPT !.ub = UB_segv]
    ELSE IF w \notin 1..Len(p.words) THEN Undefined(p, o)
    ELSE IF check_flag(p.words[w].flags, FLAG_code)
    THEN Native(p, p.words[w].code, o)
    ELSE IF ds_count(p.words[w].colon) = 0 THEN p
    ELSE LET old_ip == p.ip
             r == run_body([p EXCEPT !.ip = <<w, 1>>], w, o, depth)
         IN IF Alive(r) THEN [r EXCEPT !.ip = old_ip] ELSE r

\* the while loop of execute_word over the body of w, from the cursor p.ip
run_body(p, w, o, depth) ==
    IF p.ip[2] \notin 1..ds_count(p.words[w].colon) THEN p
    ELSE LET operation == as_xt(p.words[w].colon.contents[p.ip[2]])
             q == execute_word(p, operation, o, depth - 1)
         IN IF ~Alive(q) \/ q.ip = IP_NULL THEN q
            ELSE run_body([q EXCEPT !.ip = <<q.ip[1], q.ip[2] + 1>>],
                          w, o, depth)

\* proc_next(p): one token of the source
proc_next(p, o) ==
    LET s == scan_word(p.scan)
        q == [p EXCEPT !.scan = s]
        w == word_list_find(q.words, q.dict, s.source, s.offset)
        operand == value_read(s.source, s.offset)
    IN IF s.offset = 0 THEN q
       ELSE IF w = ENDLESS THEN [q EXCEPT !.ub = UB_hang]
       ELSE IF w = WILD THEN Undefined(q, o)
       ELSE IF w = NULL
       THEN IF ~operand.ok THEN error_undef(q)
            ELSE IF proc_compile_mode(q)
            THEN [q EXCEPT !.words[q.comp_word] =
                               proc_comp_push(@, operand.val)]
            ELSE push(q, operand.val)
       ELSE IF proc_compile_mode(q)
       THEN IF check_flag(q.words[w].flags, FLAG_immediate)
            THEN execute_word(q, w, o, MaxCallDepth)
            ELSE [q EXCEPT !.words[q.comp_word].colon = ds_push_xt(@, w)]
       ELSE IF check_flag(q.words[w].flags, FLAG_comp_only)
       THEN error_comp_only(q)
       ELSE execute_word(q, w, o, MaxCallDepth)

\* (variant: a new chunk abandons the definition left open)
run_source_begin_abandon(p, source) ==
    load_source([p EXCEPT !.panic = FALSE, !.comp_word = NULL], source)
\* run_source(p, source) up to its loop
run_source_begin(p, source) == load_source([p EXCEPT !.panic = FALSE], source)

RECURSIVE run_source_loop(_, _)
\* the while loop of run_source
run_source_loop(p, o) ==
    IF ~Alive(p) \/ scan_end(p.scan) \/ p.panic THEN p
    ELSE run_source_loop(proc_next(p, o), o)

\* run_source(p, source) as a whole
run_source(p, source, o) == run_source_loop(run_source_begin(p, source), o)

(***************************************************************************)
(* The built-in dictionary (load_builtin)                                  *)
(***************************************************************************)
Builtins == <<
    [name |-> <<"e","x","i","t">>, code |-> "w_exit", flags |-> {}],
    [name |-> <<"_","p","u","s","h">>, code |-> "w_push",
     flags |-> {FLAG_hidden}],
    [name |-> <<":">>, code |-> "w_define", flags |-> {}],
    [name |-> <<"'">>, code |-> "w_quote", flags |-> {FLAG_immediate}],
    [name |-> <<";">>, code |-> "w_end",
     flags |-> {FLAG_immediate, FLAG_comp_only}],
    [name |-> <<",">>, code |-> "w_compile",
     flags |-> {FLAG_immediate, FLAG_comp_only}],
    [name |-> <<"i","m","m","e","d","i","a","t","e">>, code |-> "w_immediate",
     flags |-> {FLAG_immediate, FLAG_comp_only}],
    [name |-> <<"c","o","n","s","t","a","n","t">>, code |-> "w_constant",
     flags |-> {FLAG_immediate}],
    [name |-> <<"v","a","r","i","a","b","l","e">>, code |-> "w_variable",
     flags |-> {}],
    [name |-> <<"@">>, code |-> "w_fetch", flags |-> {}],
    [name |-> <<"!">>, code |-> "w_store", flags |-> {}],
    [name |-> <<"d","u","p">>, code |-> "w_dup", flags |-> {}],
    [name |-> <<"s","w","a","p">>, code |-> "w_swap", flags |-> {}],
    [name |-> <<"d","r","o","p">>, code |-> "w_drop", flags |-> {}],
    [name |-> <<"o","v","e","r">>, code |-> "w_over", flags |-> {}],
    [name |-> <<"r","o","t">>, code |-> "w_rot", flags |-> {}],
    [name |-> <<".">>, code |-> "w_print", flags |-> {}],
    [name |-> <<".","u">>, code |-> "w_print_u32", flags |-> {}],
    [name |-> <<".","c">>, code |-> "w_print_ch", flags |-> {}],
    [name |-> <<"c","r">>, code |-> "w_endline", flags |-> {}],
    [name |-> <<".","s">>, code |-> "w_dump_ds", flags |-> {}],
    [name |-> <<"+">>, code |-> "w_add", flags |-> {}],
    [name |-> <<"-">>, code |-> "w_sub", flags |-> {}],
    [name |-> <<"*">>, code |-> "w_mul", flags |-> {}],
    [name |-> <<"/">>, code |-> "w_div", flags |-> {}],
    [name |-> <<"<">>, code |-> "w_less", flags |-> {}],
    [name |-> <<"<","=">>, code |-> "w_less_eq", flags |-> {}],
    [name |-> <<">">>, code |-> "w_greater", flags |-> {}],
    [name |-> <<">","=">>, code |-> "w_greater_eq", flags |-> {}],
    [name |-> <<"=">>, code |-> "w_equals", flags |-> {}],
    [name |-> <<"<",">">>, code |-> "w_not_eq", flags |-> {}],
    [name |-> <<"a","n","d">>, code |-> "w_and", flags |-> {}],
    [name |-> <<"o","r">>, code |-> "w_or", flags |-> {}],
    [name |-> <<"x","o","r">>, code |-> "w_xor", flags |-> {}] >>

NBuiltin == Len(Builtins)

\* code_word(p, name, body, flags) for the i-th built-in word
code_word(i) ==
    [word_code_new(Builtins[i].name, Builtins[i].code)
        EXCEPT !.flags = @ \cup Builtins[i].flags, !.prev = i - 1]

\* the processor proc_init leaves
proc_init ==
    [scan |-> scan_init(<<>>), ip |-> IP_NULL, ds |-> ds_init,
     panic |-> FALSE, ub |-> UB_none,
     words |-> [i \in 1..NBuiltin |-> code_word(i)],
     dict |-> NBuiltin, comp_word |-> NULL, asked |-> FALSE, late |-> FALSE]

(***************************************************************************)
(* The state machine.  The driver (repl, run_file) calls run_source once   *)
(* per chunk; RunSource is the head of run_source, ProcNext one turn of    *)
(* its loop.                                                               *)
(***************************************************************************)
VARIABLES
    scan,       \* p->scan
    ip,         \* p->ip: <<word, cell number>> or IP_NULL
    ds,         \* p->ds
    panic,      \* p->panic
    words,      \* every Word allocated so far
    dict,       \* p->dict: the last word defined
    comp_word,  \* p->comp_word
    ub,         \* whether the process went through undefined behaviour
    run         \* the run explored: the source lines the driver may feed
                \* (as token lists) and the limits on the sizes

vars == <<scan, ip, ds, panic, words, dict, comp_word, ub, run>>

\* the processor as the C functions see it
P == [scan |-> scan, ip |-> ip, ds |-> ds, panic |-> panic, ub |-> ub,
      words |-> words, dict |-> dict, comp_word |-> comp_word,
      asked |-> FALSE, late |-> FALSE]

\* what the bytes of a reinterpreted cell may read as
WildNums == {0, 1}

\* where a store through reinterpreted bytes may land: on no cell, or on a
\* cell of the first word defined
WildHits == {Num(0)} \cup {Addr(NBuiltin + 1, i) : i \in 1..4}

Oracle1 == [segv |-> TRUE, num |-> 0, cell |-> Num(0), hit |-> Num(0)]

Oracles ==
    {[segv |-> TRUE, num |-> n, cell |-> Num(n), hit |-> Num(0)] :
         n \in WildNums}
    \cup {[segv |-> FALSE, num |-> n, cell |-> Num(n), hit |-> h] :
              n \in WildNums, h \in WildHits}

\* the oracles that make a difference to the next token: all of them when
\* it reinterprets a cell, else one
OraclesFor(p) ==
    IF proc_next(p, Oracle1).asked THEN Oracles ELSE {Oracle1}

RECURSIVE Join(_)
\* a source line: the tokens separated by blanks, then the newline
Join(ts) ==
    IF Len(ts) = 0 THEN <<"\n">>
    ELSE IF Len(ts) = 1 THEN ts[1] \o <<"\n">>
    ELSE ts[1] \o <<" ">> \o Join(Tail(ts))

NumInBound(c, n) == c.t = "num" => (c.v >= 0 - n /\ c.v <= n)

\* the processor q is within the limits lim of the exploration
Bounded(q, lim) ==
    /\ Len(q.words) <= NBuiltin + lim.words
    /\ ds_count(q.ds) <= lim.ds
    /\ \A i \in 1..ds_count(q.ds) : NumInBound(q.ds.contents[i], lim.num)
    /\ \A w \in NBuiltin + 1..Len(q.words) :
          /\ (w = q.comp_word => ds_count(q.words[w].colon) <= lim.body)
          /\ \A i \in 1..ds_count(q.words[w].colon) :
                NumInBound(q.words[w].colon.contents[i], lim.num)

InitProc ==
    /\ scan = proc_init.scan
    /\ ip = proc_init.ip
    /\ ds = proc_init.ds
    /\ panic = proc_init.panic
    /\ ub = proc_init.ub
    /\ words = proc_init.words
    /\ dict = proc_init.dict
    /\ comp_word = proc_init.comp_word

\* the loop of the last run_source has ended
LoopDone == scan_end(scan) \/ panic

\* run_source(p, source) up to its loop
RunSource ==
    /\ ub \notin {UB_segv, UB_hang}
    /\ LoopDone
    /\ \E ts \in run.lines :
          LET q == run_source_begin(P, Join(ts))
          IN /\ scan' = q.scan
             /\ ip' = q.ip
             /\ ds' = q.ds
             /\ panic' = q.panic
             /\ ub' = q.ub
             /\ words' = q.words
             /\ dict' = q.dict
             /\ comp_word' = q.comp_word
    /\ UNCHANGED run

\* one turn of the loop of run_source
ProcNext ==
    /\ ub \notin {UB_segv, UB_hang}
    /\ ~LoopDone
    /\ \E o \in OraclesFor(P) :
          LET q == proc_next(P, o)
          IN /\ Bounded(q, run)
             /\ scan' = q.scan
             /\ ip' = q.ip
             /\ ds' = q.ds
             /\ panic' = q.panic
             /\ ub' = q.ub
             /\ words' = q.words
             /\ dict' = q.dict
             /\ comp_word' = q.comp_word
    /\ UNCHANGED run

Next == RunSource \/ ProcNext

(***************************************************************************)
(* Tokens and the source lines of the runs                                 *)
(***************************************************************************)
T_colon == <<":">>
T_semi == <<";">>
T_f == <<"f">>
T_F == <<"F">>
T_g == <<"g">>
T_v == <<"v">>
T_w == <<"w">>
T_variable == <<"v","a","r","i","a","b","l","e">>
T_fetch == <<"@">>
T_store == <<"!">>
T_sq == <<"s","q">>
T_q == <<"q">>
T_dup == <<"d","u","p">>
T_swap == <<"s","w","a","p">>
T_drop == <<"d","r","o","p">>
T_over == <<"o","v","e","r">>
T_rot == <<"r","o","t">>
T_plus == <<"+">>
T_minus == <<"-">>
T_star == <<"*">>
T_less == <<"<">>
T_equals == <<"=">>
T_3 == <<"3">>
T_constant == <<"c","o","n","s","t","a","n","t">>
T_1 == <<"1">>
T_2 == <<"2">>

(***************************************************************************)
(* Notions the properties are stated with                                  *)
(***************************************************************************)
UserWords == NBuiltin + 1..Len(words)

Hidden(w) == check_flag(words[w].flags, FLAG_hidden)

Body(w) == words[w].colon.contents

\* the data stack that invoking word w leaves, from the stack st
Invoke(w, st) ==
    execute_word([P EXCEPT !.ds.contents = st, !.panic = FALSE],
                 w, Oracle1, MaxCallDepth).ds.contents

\* a and b are the same character up to the case of a letter
SameLetter(a, b) ==
    a = b \/ \E k \in 1..26 : {a, b} = {Upper[k], Lower[k]}

NameMatches(w, n) ==
    /\ Len(words[w].name) = Len(n)
    /\ \A i \in 1..Len(n) : SameLetter(words[w].name[i], n[i])

\* the last allocated word that is not hidden and bears the name n
MostRecentVisible(n) ==
    LET S == {w \in 1..Len(words) : ~Hidden(w) /\ NameMatches(w, n)}
    IN IF S = {} THEN NULL ELSE CHOOSE w \in S : \A v \in S : v <= w

\* word_list_find(p->dict, n) in the current state
Find(n) == word_list_find(words, dict, n, Len(n))

\* the token the next turn of the loop scans
NextToken == scan_peek_text(scan_word(scan))

(***************************************************************************)
(* Redefinition (C1)                                                       *)
(***************************************************************************)
\* limits of the runs on redefinition: user-defined words, cells in the body
\* of an open definition, cells on the data stack, magnitude of the integers
ShadowWords == 3
ShadowBody == 2
ShadowDS == 2
ShadowNum == 2

LinesShadow ==
    { <<T_colon, T_f, T_1, T_semi>>, <<T_colon, T_f, T_2, T_semi>>,
      <<T_colon, T_g, T_F, T_semi>>, <<T_colon, T_f, T_f, T_semi>>,
      <<T_f>>, <<T_g>> }

InitShadow ==
    /\ InitProc
    /\ run = [lines |-> LinesShadow, words |-> ShadowWords,
              body |-> ShadowBody, ds |-> ShadowDS, num |-> ShadowNum]

SpecShadow == InitShadow /\ [][Next]_vars

ShadowNames == {T_f, T_F, T_g, <<"G">>, T_1, T_colon, <<"_","P","U","S","H">>}

\* lookup returns the last defined visible word of that name, case ignored
C1_Lookup == \A n \in ShadowNames : Find(n) = MostRecentVisible(n)

\* a word whose body is the single reference to word W does what W does
C1_Captured ==
    \A g \in UserWords :
        (~Hidden(g) /\ Len(Body(g)) = 1 /\ Body(g)[1].t = "xt")
            => Invoke(g, <<>>) = Invoke(Body(g)[1].v, <<>>)

\* a step changes no word but the one under compilation: the references in
\* a closed body and the words they refer to stay as they are
C1_Frozen ==
    \A w \in 1..Len(words) : w # comp_word => words'[w] = words[w]

\* C1: redefinition shadows but never rebinds.  Lookup of a name returns the
\* most recently defined non-hidden word whose name matches, case ignored,
\* and a word compiled when a name resolved to word W keeps executing W
\* after every later redefinition of that name.
C1_Shadowing == [](C1_Lookup /\ C1_Captured) /\ [][C1_Frozen]_vars

\* after `: f 1 ; : g f ; : f 2 ; g f`: g still runs the first f and pushed
\* 1, the name f resolves to the second f, which pushed 2
C1_Witness ==
    \E w1, g, w2 \in UserWords :
        /\ w1 < g /\ g < w2
        /\ words[w1].name = T_f /\ Body(w1) = <<Xt(W_PUSH), Num(1)>>
        /\ Body(g) = <<Xt(w1)>> /\ ~Hidden(g)
        /\ Body(w2) = <<Xt(W_PUSH), Num(2)>> /\ Find(T_f) = w2
        /\ Find(T_g) = g
        /\ ds.contents = <<Num(1), Num(2)>>
        /\ scan_end(scan)

(***************************************************************************)
(* Variables (C2)                                                          *)
(***************************************************************************)
VarWords == 2
VarBody == 2
VarDS == 2
VarNum == 2

LinesVar ==
    { <<T_variable, T_v>>, <<T_variable, T_w>>, <<T_colon, T_f, T_2, T_semi>>,
      <<T_1, T_v, T_store>>, <<T_2, T_v, T_store>>, <<T_2, T_w, T_store>>,
      <<T_v, T_fetch>>, <<T_1>> }

InitVar ==
    /\ InitProc
    /\ run = [lines |-> LinesVar, words |-> VarWords, body |-> VarBody,
              ds |-> VarDS, num |-> VarNum]

SpecVar == InitVar /\ [][Next]_vars

\* word w was created by `variable`: [push, address, exit, storage]
IsVariable(w) ==
    /\ w \in UserWords
    /\ Len(Body(w)) = 4
    /\ Body(w)[1] = Xt(W_PUSH)
    /\ Body(w)[3] = Xt(W_EXIT)

\* the next turn of the loop executes, at top level, the native word fn
Executes(fn) ==
    /\ ~LoopDone
    /\ comp_word = NULL
    /\ Find(NextToken) # NULL
    /\ words[Find(NextToken)].code = fn

\* the top cell of the data stack, and the stack below its n top cells
Top == ds.contents[ds_count(ds)]
Below(n) == SubSeq(ds.contents, 1, ds_count(ds) - n)

\* every invocation of a variable pushes the address of its own last cell
C2_Address ==
    \A v \in UserWords :
        IsVariable(v) => /\ Body(v)[2] = Addr(v, Len(Body(v)))
                         /\ Alive(P) => Invoke(v, ds.contents)
                                            = Append(ds.contents, Addr(v, 4))

\* `!` with the address of a variable on top stores the cell beneath it
C2_Store ==
    \A v \in UserWords :
        (IsVariable(v) /\ Executes("w_store") /\ ds_count(ds) >= 2
            /\ Top = Addr(v, 4))
        => /\ Body(v)'[4] = ds.contents[ds_count(ds) - 1]
           /\ ds'.contents = Below(2)

\* `@` with the address of a variable on top pushes the cell stored
C2_Fetch ==
    \A v \in UserWords :
        (IsVariable(v) /\ Executes("w_fetch") /\ ds_count(ds) >= 1
            /\ Top = Addr(v, 4))
        => ds'.contents = Append(Below(1), Body(v)[4])

\* nothing but a store through its address changes a variable
C2_Frame ==
    \A v \in UserWords :
        IsVariable(v) =>
            /\ SubSeq(Body(v)', 1, 3) = SubSeq(Body(v), 1, 3)
            /\ Len(Body(v)') = 4
            /\ Body(v)'[4] # Body(v)[4]
                  => (Executes("w_store") /\ ds_count(ds) >= 1
                        /\ Top = Addr(v, 4))

\* C2: variable round trip and stable address.  Every invocation of a
\* variable v pushes the same address, that of the trailing storage cell of
\* its body, and the cell `x v !` stored there is what `v @` pushes until
\* the next store through that address, whatever else happens in between.
C2_RoundTrip ==
    [](C2_Address) /\ [][C2_Store /\ C2_Fetch /\ C2_Frame]_vars

\* after `variable v`, `variable w`, `1 v !`, `2 w !`, `1`, `v @`: the 1
\* stored in v is back, on top of the 1 pushed in between
C2_Witness ==
    \E v, w \in UserWords :
        /\ IsVariable(v) /\ IsVariable(w) /\ v # w
        /\ Body(v)[4] = Num(1) /\ Body(w)[4] = Num(2)
        /\ ds.contents = <<Num(1), Num(1)>>
        /\ scan.offset = 1 /\ scan_peek_text(scan) = T_fetch

(***************************************************************************)
(* Definition and invocation (C3)                                          *)
(***************************************************************************)
InvokeWords == 2
InvokeBody == 2
InvokeDS == 2
InvokeNum == 4
\* tokens in the bodies tried
InvokeLen == 1

LinesInvoke ==
    { <<T_1>>, <<T_2>>, <<T_drop>>,
      <<T_colon, T_sq, T_dup, T_star, T_semi>>,
      <<T_colon, T_q, T_dup, T_sq, T_semi>>, <<T_sq>> }

InitInvoke ==
    /\ InitProc
    /\ run = [lines |-> LinesInvoke, words |-> InvokeWords,
              body |-> InvokeBody, ds |-> InvokeDS, num |-> InvokeNum]

SpecInvoke == InitInvoke /\ [][Next]_vars

\* literals, stack shuffles, arithmetic and comparison, and the colon words
\* sq and q
BodyTokens ==
    { T_1, <<"-","1">>, <<"'","a","'">>, T_dup, T_swap, T_drop, T_over,
      T_rot, T_plus, T_minus, T_star, T_less, T_equals, T_sq, T_q }

Bodies ==
    UNION {[1..n -> BodyTokens] : n \in 0..InvokeLen}
        \cup { <<T_dup, T_star>>, <<T_swap, T_drop>>, <<T_1, T_plus>>,
               <<T_1, T_less>>, <<T_sq, T_q>>, <<T_dup, T_q, T_equals>>,
               <<T_over, T_over, T_plus, T_sq>>, <<T_1, T_sq, T_sq, T_rot>> }

\* the name of the word defined: one that no line and no body uses
T_fresh == <<"w">>

\* run_source on the line `body`, from the current state
Direct(body) == run_source(P, Join(body), Oracle1)

\* run_source on the line `: w body ; w`, from the current state
Defined(body) ==
    run_source(P, Join(<<T_colon, T_fresh>> \o body \o <<T_semi, T_fresh>>),
               Oracle1)

\* C3: definition and invocation agree with direct interpretation.  For a
\* body of literals, stack shuffles, arithmetic and comparison words and
\* earlier colon words, `: w body ;` followed by w leaves the data stack that
\* interpreting the tokens of body leaves from the same stack, when no step
\* of that fails; the inline literals are pushed, never executed.
C3_Invocation ==
    (LoopDone /\ comp_word = NULL /\ Alive(P)) =>
        \A body \in Bodies :
            LET direct == Direct(body)
                defined == Defined(body)
            IN ~direct.panic =>
                   /\ defined.ds.contents = direct.ds.contents
                   /\ ~defined.panic
                   /\ defined.ub = ub
                   /\ defined.comp_word = NULL

\* sq was defined as `dup *` and invoked on 2; on the stack 2 4 the body
\* `over over + sq` leaves 2 4 36
C3_Witness ==
    /\ LoopDone /\ comp_word = NULL /\ ~panic
    /\ Find(T_sq) \in UserWords
    /\ Body(Find(T_sq)) = <<Xt(Find(T_dup)), Xt(Find(T_star))>>
    /\ ds.contents = <<Num(2), Num(4)>>
    /\ Defined(<<T_over, T_over, T_plus, T_sq>>).ds.contents
           = <<Num(2), Num(4), Num(36)>>

(***************************************************************************)
(* The life of a definition (C4)                                           *)
(***************************************************************************)
LifeWords == 2
LifeBody == 2
LifeDS == 2
LifeNum == 1

LinesLife ==
    { <<T_1, T_colon, T_f>>, <<T_1>>, <<T_f>>, <<T_semi>>,
      <<T_constant, T_f>> }

InitLife ==
    /\ InitProc
    /\ run = [lines |-> LinesLife, words |-> LifeWords, body |-> LifeBody,
              ds |-> LifeDS, num |-> LifeNum]

SpecLife == InitLife /\ [][Next]_vars

LifeNames == {T_f, T_F, T_g, T_1, T_colon, T_semi, T_constant, <<>>}

\* the engine compiles exactly when a target exists; the target is a hidden
\* colon word that no lookup returns
C4_Target ==
    /\ proc_compile_mode(P) <=> comp_word \in UserWords
    /\ comp_word # NULL =>
          /\ Hidden(comp_word)
          /\ ~check_flag(words[comp_word].flags, FLAG_code)
          /\ \A n \in LifeNames \cup {words[comp_word].name} :
                Find(n) # comp_word

\* `:` at top level creates a hidden word without cells, named by the next
\* token, and makes it the target
C4_Open ==
    Executes("w_define") =>
        /\ Len(words') = Len(words) + 1
        /\ comp_word' = Len(words')
        /\ dict' = Len(words')
        /\ words'[Len(words')] =
              [word_new(scan_peek_text(scan_word(scan_word(scan))),
                        {FLAG_hidden}) EXCEPT !.prev = dict]

\* the next turn of the loop is the `;` that closes the open definition
Closing ==
    /\ ~LoopDone
    /\ comp_word # NULL
    /\ Find(NextToken) # NULL
    /\ words[Find(NextToken)].code = "w_end"

\* the target stays the target until `;`, which clears its hidden flag and
\* returns the engine to interpreting
C4_Close ==
    comp_word # NULL =>
        /\ comp_word' # comp_word => Closing
        /\ Closing => /\ comp_word' = NULL
                      /\ ~check_flag(words'[comp_word].flags, FLAG_hidden)

\* after the closing `;` lookup of the name returns the new word
C4_FoundAfterClose ==
    Closing =>
        LET n == words[comp_word].name
        IN word_list_find(words', dict', n, Len(n)) = comp_word

\* after the closing `;` lookup of the name returns the new word, or the word
\* of that name defined after it if there is one
C4_NewestAfterClose ==
    Closing =>
        LET n == words[comp_word].name
            later == {w \in comp_word + 1..Len(words) :
                         ~Hidden(w) /\ NameMatches(w, n)}
            found == word_list_find(words', dict', n, Len(n))
        IN IF later = {} THEN found = comp_word
           ELSE found \in later /\ \A w \in later : w <= found

\* C4 as claimed: `:` creates a hidden word and makes it the target; until
\* the closing `;` no lookup returns it; `;` returns the engine to
\* interpreting and clears the hidden flag, after which lookup of the name
\* returns the new word.
C4_Original ==
    [](C4_Target) /\ [][C4_Open /\ C4_Close /\ C4_FoundAfterClose]_vars

\* C4 as amended: the same, but after the closing `;` lookup of the name
\* returns the most recently defined visible word of that name, which is
\* the new word unless a word of the same name was defined while the
\* definition was open (`: f constant f ;`).
C4_Lifecycle ==
    [](C4_Target) /\ [][C4_Open /\ C4_Close /\ C4_NewestAfterClose]_vars

\* `;` has just closed a second definition of f: the engine interprets and
\* the name resolves to the new word, not to the older one
C4_Witness ==
    /\ comp_word = NULL /\ ~panic
    /\ scan.offset = 1 /\ scan_peek_text(scan) = T_semi
    /\ \E w0, w \in UserWords :
          /\ w0 < w /\ w = Len(words)
          /\ words[w0].name = T_f /\ words[w].name = T_f
          /\ ~Hidden(w0) /\ ~Hidden(w)
          /\ Body(w) = <<Xt(w0)>>
          /\ Find(T_f) = w

(***************************************************************************)
(* Compile-only words at the top level (C5)                                *)
(***************************************************************************)
MisuseWords == 1
MisuseBody == 1
MisuseDS == 1
MisuseNum == 1

T_comma == <<",">>
T_IMMEDIATE == <<"I","M","M","E","D","I","A","T","E">>

LinesMisuse ==
    { <<T_semi>>, <<T_comma>>, <<T_IMMEDIATE>>, <<T_1>>, <<T_colon, T_f>>,
      <<T_f>> }

InitMisuse ==
    /\ InitProc
    /\ run = [lines |-> LinesMisuse, words |-> MisuseWords,
              body |-> MisuseBody, ds |-> MisuseDS, num |-> MisuseNum]

SpecMisuse == InitMisuse /\ [][Next]_vars

\* the compile-only words are the primitives `;`, `,` and `immediate`
C5_CompOnly ==
    \A w \in 1..Len(words) :
        check_flag(words[w].flags, FLAG_comp_only)
            <=> words[w].code \in {"w_end", "w_compile", "w_immediate"}

\* the next turn of the loop dispatches a compile-only word while the engine
\* interprets
Misused ==
    /\ ~LoopDone
    /\ ~proc_compile_mode(P)
    /\ Find(NextToken) # NULL
    /\ words[Find(NextToken)].code \in {"w_end", "w_compile", "w_immediate"}

\* the turn sets the panic flag and only consumes the token
C5_Refused ==
    Misused =>
        /\ panic'
        /\ scan' = scan_word(scan)
        /\ ds' = ds /\ words' = words /\ dict' = dict
        /\ comp_word' = NULL /\ ip' = ip /\ ub' = ub

\* C5: dispatching a compile-only word (`;`, `,`, `immediate`) as a
\* top-level token while the engine interprets sets the panic flag and does
\* not execute the word; the data stack, the dictionary and the absent
\* compile target are left unchanged.
C5_Misuse == [](C5_CompOnly) /\ [][C5_Refused]_vars

\* `,` has just been refused at the top level, with a cell on the data stack
\* it would have popped and a definition in the dictionary it would have
\* appended to
C5_Witness ==
    /\ panic /\ comp_word = NULL
    /\ scan_peek_text(scan) = T_comma
    /\ ds.contents = <<Num(1)>>
    /\ dict \in UserWords

(***************************************************************************)
(* Popping an empty data stack (C6)                                        *)
(***************************************************************************)
\* the data stack may outgrow its first allocation of 8 cells
UnderWords == 1
UnderBody == 1
UnderDS == 9
UnderNum == 1

LinesUnder ==
    { <<T_1>>, <<T_drop>>, <<T_dup>>, <<T_1, T_1, T_1>>,
      <<T_colon, T_f, T_drop, T_semi, T_f>> }

InitUnder ==
    /\ InitProc
    /\ run = [lines |-> LinesUnder, words |-> UnderWords, body |-> UnderBody,
              ds |-> UnderDS, num |-> UnderNum]

SpecUnder == InitUnder /\ [][Next]_vars

\* the count of live cells lies between 0 and the allocated size
C6_Count ==
    /\ 0 <= ds_count(ds)
    /\ ds_count(ds) <= ds.capacity

\* a pop of the empty data stack: panic is set afterwards, the stack and the
\* rest of the processor are as before, the cell handed to ds_pop is not
\* written and the cell returned is the integer 0
C6_EmptyPop ==
    ds_count(ds) = 0 =>
        LET r == proc_pop(P)
        IN /\ r.p = [P EXCEPT !.panic = TRUE]
           /\ ds_count(r.p.ds) = 0
           /\ r.c = Num(0)
           /\ \A c \in {Num(0), Num(1), Xt(W_EXIT)} :
                 ds_pop(ds, c) = [err |-> TRUE, ds |-> ds, out |-> c]

\* `drop` with nothing to drop sets panic and leaves the stack empty; `dup`
\* with nothing to copy sets panic and pushes the default cell twice
C6_Underflow ==
    /\ (Executes("w_drop") /\ ds_count(ds) = 0) =>
           panic' /\ ds' = ds /\ ub' = ub
    /\ (Executes("w_dup") /\ ds_count(ds) = 0) =>
           panic' /\ ds'.contents = <<Num(0), Num(0)>> /\ ub' = ub

\* C6: in every reachable state the data stack's cell count is between 0
\* and its capacity; a pop attempted on an empty data stack sets the panic
\* flag, leaves the count at 0, reads no stack cell and yields the default
\* cell 0.
C6_UnderflowSafety == [](C6_Count /\ C6_EmptyPop) /\ [][C6_Underflow]_vars

\* the stack has grown past its first allocation, has been emptied again,
\* and one more `drop` has just underflowed
C6_Witness ==
    /\ panic
    /\ scan_peek_text(scan) = T_drop
    /\ ds.contents = <<>>
    /\ ds.capacity = 16

(***************************************************************************)
(* The stack shuffles (C7)                                                 *)
(***************************************************************************)
\* the runs define no word; the stack holds a cell below the three operands
\* of rot
ShuffleDS == 4
ShuffleNum == 3

LinesShuffle ==
    { <<T_1>>, <<T_2>>, <<T_3>>, <<T_dup>>, <<T_swap>>, <<T_drop>>,
      <<T_over>>, <<T_rot>>, <<T_3, T_1, T_2, T_3, T_rot>> }

InitShuffle ==
    /\ InitProc
    /\ run = [lines |-> LinesShuffle, words |-> 0, body |-> 0,
              ds |-> ShuffleDS, num |-> ShuffleNum]

SpecShuffle == InitShuffle /\ [][Next]_vars

\* the cell k places under the top of the data stack
FromTop(k) == ds.contents[ds_count(ds) - k]

\* with their operands present the shuffles rearrange the top of the stack,
\* leave the cells below alone and raise no error
C7_Laws ==
    /\ (Executes("w_dup") /\ ds_count(ds) >= 1) =>
           /\ ds'.contents = Below(1) \o <<FromTop(0), FromTop(0)>>
           /\ ~panic' /\ ub' = ub
    /\ (Executes("w_swap") /\ ds_count(ds) >= 2) =>
           /\ ds'.contents = Below(2) \o <<FromTop(0), FromTop(1)>>
           /\ ~panic' /\ ub' = ub
    /\ (Executes("w_drop") /\ ds_count(ds) >= 1) =>
           /\ ds'.contents = Below(1)
           /\ ~panic' /\ ub' = ub
    /\ (Executes("w_over") /\ ds_count(ds) >= 2) =>
           /\ ds'.contents = Below(2) \o <<FromTop(1), FromTop(0), FromTop(1)>>
           /\ ~panic' /\ ub' = ub
    /\ (Executes("w_rot") /\ ds_count(ds) >= 3) =>
           /\ ds'.contents = Below(3) \o <<FromTop(1), FromTop(0), FromTop(2)>>
           /\ ~panic' /\ ub' = ub

\* swap with a single cell on the stack reports the underflow
C7_SwapOne ==
    (Executes("w_swap") /\ ds_count(ds) = 1) => panic'

\* C7: on a data stack holding at least the declared operands, dup is
\* (a -- a a), swap is (a b -- b a), drop is (a -- ), over is
\* (a b -- a b a) and rot is (a b c -- b c a), with every cell below the
\* operands untouched; swap on a single-element stack reports stack
\* underflow.
C7_Shuffles == [][C7_Laws /\ C7_SwapOne]_vars

\* rot has just turned 3 1 2 3 into 3 2 3 1
C7_Witness ==
    /\ ~panic
    /\ scan_peek_text(scan) = T_rot
    /\ ds.contents = <<Num(3), Num(2), Num(3), Num(1)>>

(***************************************************************************)
(* The binary operators (C8)                                               *)
(***************************************************************************)
\* the runs define no word; integers reach 5 * 3
BinaryDS == 2
BinaryNum == 15

T_m1 == <<"-","1">>
T_0 == <<"0">>
T_5 == <<"5">>
T_slash == <<"/">>
T_less_eq == <<"<","=">>
T_greater == <<">">>
T_greater_eq == <<">","=">>
T_not_eq == <<"<",">">>
T_and == <<"a","n","d">>
T_or == <<"o","r">>
T_xor == <<"x","o","r">>

LinesBinary ==
    { <<T_m1>>, <<T_0>>, <<T_1>>, <<T_3>>, <<T_5>>,
      <<T_plus>>, <<T_minus>>, <<T_star>>, <<T_slash>>,
      <<T_less>>, <<T_less_eq>>, <<T_greater>>, <<T_greater_eq>>,
      <<T_equals>>, <<T_not_eq>>, <<T_and>>, <<T_or>>, <<T_xor>> }

InitBinary ==
    /\ InitProc
    /\ run = [lines |-> LinesBinary, words |-> 0, body |-> 0,
              ds |-> BinaryDS, num |-> BinaryNum]

SpecBinary == InitBinary /\ [][Next]_vars

Arithmetic == {"w_add", "w_sub", "w_mul", "w_div"}
Comparison ==
    {"w_less", "w_less_eq", "w_greater", "w_greater_eq", "w_equals",
     "w_not_eq"}
Logical == {"w_and", "w_or", "w_xor"}

Truth(b) == IF b THEN -1 ELSE 0

\* what the operator is to leave for n1 beneath n2
Expected(fn, n1, n2) ==
    CASE fn = "w_add" -> n1 + n2
      [] fn = "w_sub" -> n1 - n2
      [] fn \in {"w_mul", "w_div"} -> n1 * n2
      [] fn = "w_less" -> Truth(n1 < n2)
      [] fn = "w_less_eq" -> Truth(n1 <= n2)
      [] fn = "w_greater" -> Truth(n1 > n2)
      [] fn = "w_greater_eq" -> Truth(n1 >= n2)
      [] fn = "w_equals" -> Truth(n1 = n2)
      [] fn = "w_not_eq" -> Truth(n1 # n2)
      [] fn = "w_and" -> Truth(n1 = -1 /\ n2 = -1)
      [] fn = "w_or" -> Truth(n1 = -1 \/ n2 = -1)
      [] fn = "w_xor" -> Truth((n1 = -1) # (n2 = -1))

\* the next turn of the loop runs the operator fn on two integers
Operates(fn) ==
    /\ Executes(fn)
    /\ ds_count(ds) >= 2
    /\ FromTop(0).t = "num" /\ FromTop(1).t = "num"
    /\ fn \in Logical => {FromTop(0).v, FromTop(1).v} \subseteq {-1, 0}

\* two cells are replaced by the one result
C8_Result ==
    \A fn \in Arithmetic \cup Comparison \cup Logical :
        Operates(fn) =>
            /\ ds'.contents =
                  Append(Below(2), Num(Expected(fn, FromTop(1).v, FromTop(0).v)))
            /\ ~panic' /\ ub' = ub

\* a comparison or a logical operator on flags leaves a flag
C8_Flag ==
    \A fn \in Comparison \cup Logical :
        Operates(fn) => ds'.contents[Len(ds'.contents)] \in {Num(-1), Num(0)}

\* C8: each of + - * / < <= > >= = <> and or xor pops exactly two cells and
\* pushes exactly one, computed as n1 op n2 where n2 was the top cell and
\* n1 the cell beneath it; / pushes the same result as *; every comparison
\* pushes -1 for true and 0 for false, and on operands drawn from {-1, 0}
\* and, or, xor give the logical result in {-1, 0}.
C8_Binary == [][C8_Result /\ C8_Flag]_vars

\* `/` has just left 15
C8_Witness ==
    /\ ~panic
    /\ scan_peek_text(scan) = T_slash
    /\ ds.contents = <<Num(15)>>

(***************************************************************************)
(* Panic and the rest of the chunk (C9)                                    *)
(***************************************************************************)
StickyWords == 2
StickyBody == 2
StickyDS == 2
StickyNum == 1

LinesSticky ==
    { <<T_1>>, <<T_drop, T_1>>, <<T_g, T_1>>, <<T_semi, T_1>>,
      <<T_constant, T_f>>, <<T_colon, T_f, T_drop, T_semi>>, <<T_f, T_1>> }

InitSticky ==
    /\ InitProc
    /\ run = [lines |-> LinesSticky, words |-> StickyWords,
              body |-> StickyBody, ds |-> StickyDS, num |-> StickyNum]

SpecSticky == InitSticky /\ [][Next]_vars

\* a turn of the loop that ends with panic set has consumed the token it
\* dispatched and no token behind it
C9_NoLaterToken ==
    (~LoopDone /\ panic') => scan' = scan_word(scan)

\* with panic set the only step is the start of the next chunk, which resets
\* the flag
C9_OnlyReset ==
    panic => /\ ~panic'
             /\ \E ts \in run.lines : scan' = scan_init(Join(ts))

\* C9: once an error sets the panic flag during a run of a chunk, none of
\* the remaining tokens of that chunk is consumed or acted on, and the flag
\* stays set until the next run begins, which is the only point where it is
\* reset.
C9_Sticky == [][C9_NoLaterToken /\ C9_OnlyReset]_vars

(***************************************************************************)
(* From one chunk to the next (C10)                                        *)
(***************************************************************************)
CarryWords == 1
CarryBody == 2
CarryDS == 1
CarryNum == 1

\* g is never defined: a definition stays open over the end of a chunk only
\* where the undefined g has stopped the chunk before its `;`
LinesCarry ==
    { <<T_colon, T_f, T_dup, T_g, T_semi>>, <<T_colon, T_f, T_1, T_semi>>,
      <<T_1>>, <<T_dup>>, <<T_drop>>, <<T_semi>>, <<T_f>> }

InitCarry ==
    /\ InitProc
    /\ run = [lines |-> LinesCarry, words |-> CarryWords, body |-> CarryBody,
              ds |-> CarryDS, num |-> CarryNum]

SpecCarry == InitCarry /\ [][Next]_vars

\* the step that starts a chunk loads the new text and clears panic; the
\* data stack, the words, the dictionary and the compile target stay
C10_Carry ==
    LoopDone =>
        /\ \E ts \in run.lines : scan' = scan_init(Join(ts))
        /\ ~panic'
        /\ ds' = ds /\ words' = words /\ dict' = dict
        /\ comp_word' = comp_word /\ ip' = ip /\ ub' = ub

\* a definition open at a panic is still the target, hidden and with its
\* cells, when the next chunk starts
C10_OpenStays ==
    (panic /\ comp_word # NULL) =>
        /\ comp_word' = comp_word
        /\ check_flag(words'[comp_word].flags, FLAG_hidden)
        /\ words'[comp_word].colon = words[comp_word].colon

\* the first token of a chunk that starts with an open definition is
\* compiled into that definition
C10_Compiling ==
    (/\ ~LoopDone /\ scan.offset = 0 /\ comp_word # NULL
     /\ Find(NextToken) # NULL
     /\ ~check_flag(words[Find(NextToken)].flags, FLAG_immediate)) =>
        /\ comp_word' = comp_word
        /\ words'[comp_word].colon.contents
              = Append(Body(comp_word), Xt(Find(NextToken)))
        /\ ds' = ds

\* C10: starting a new run of a chunk resets only the panic flag and the
\* scan position; the data stack contents and the dictionary are kept, and
\* a definition left open when a panic occurred stays the compile target,
\* stays hidden and keeps the cells compiled so far, so the next chunk
\* starts in compiling mode for that same word.
C10_AcrossChunks == [][C10_Carry /\ C10_OpenStays /\ C10_Compiling]_vars

\* a chunk starts with 1 on the stack and the definition of f open, hidden
\* and holding the dup compiled before the undefined g stopped its chunk
C10_Witness ==
    /\ scan.offset = 0 /\ ~scan_end(scan) /\ ~panic
    /\ ds.contents = <<Num(1)>>
    /\ comp_word \in UserWords
    /\ Hidden(comp_word)
    /\ words[comp_word].name = T_f
    /\ Body(comp_word) = <<Xt(Find(T_dup))>>

(***************************************************************************)
(* Naming a word with `'` (C11)                                            *)
(***************************************************************************)
QuoteWords == 2
QuoteBody == 2
QuoteDS == 2
QuoteNum == 1

T_quote == <<"'">>

LinesQuote ==
    { <<T_colon, T_f, T_quote, T_f, T_semi>>, <<T_colon, T_f, T_1, T_semi>>,
      <<T_quote, T_f>>, <<T_quote, T_g>>, <<T_drop>> }

InitQuote ==
    /\ InitProc
    /\ run = [lines |-> LinesQuote, words |-> QuoteWords, body |-> QuoteBody,
              ds |-> QuoteDS, num |-> QuoteNum]

SpecQuote == InitQuote /\ [][Next]_vars

\* the next turn of the loop runs `'`, at the top level or inside a
\* definition
Quotes ==
    /\ ~LoopDone
    /\ Find(NextToken) # NULL
    /\ words[Find(NextToken)].code = "w_quote"

\* the token behind the `'`
QuotedName == scan_peek_text(scan_word(scan_word(scan)))

\* `'` followed by the name of the open definition pushes the reference of
\* that definition
C11_Self ==
    (Quotes /\ comp_word # NULL /\ NameMatches(comp_word, QuotedName)) =>
        ds'.contents = Append(ds.contents, Xt(comp_word))

\* `'` consumes the name and pushes one cell; no word runs or changes
C11_NoInvoke ==
    Quotes =>
        /\ scan' = scan_word(scan_word(scan))
        /\ Len(ds'.contents) = Len(ds.contents) + 1
        /\ SubSeq(ds'.contents, 1, Len(ds.contents)) = ds.contents
        /\ words' = words /\ dict' = dict /\ comp_word' = comp_word
        /\ ~panic'

\* C11: inside the still-open definition of a word W, `' W` pushes the
\* execution reference of W itself, because the fetch by name bypasses the
\* hidden check of ordinary lookup; `'` never invokes the word it names.
C11_SelfReference == [][C11_Self /\ C11_NoInvoke]_vars

(***************************************************************************)
(* The kind of a cell (C12)                                                *)
(***************************************************************************)
TagWords == 2
TagBody == 2
TagDS == 2
TagNum == 1

LinesTag ==
    { <<T_1>>, <<T_fetch>>, <<T_store>>, <<T_variable, T_v>>,
      <<T_1, T_colon, T_f, T_comma, T_semi>>, <<T_f>> }

InitTag ==
    /\ InitProc
    /\ run = [lines |-> LinesTag, words |-> TagWords, body |-> TagBody,
              ds |-> TagDS, num |-> TagNum]

SpecTag == InitTag /\ [][Next]_vars

\* the cell c is the execution reference of an existing word
IsReference(c) == c.t = "xt" /\ c.v \in 1..Len(words)

\* the next turn of the loop invokes a colon word from the top level
RunsColon ==
    /\ ~LoopDone
    /\ comp_word = NULL
    /\ Find(NextToken) # NULL
    /\ ~check_flag(words[Find(NextToken)].flags, FLAG_code)

\* `@` and `!` on a top cell that is not an address set panic and touch
\* nothing through it
C12_Address ==
    ((Executes("w_fetch") \/ Executes("w_store"))
        /\ ds_count(ds) >= 1 /\ FromTop(0).t # "addr") =>
            panic' /\ ub' = ub /\ words' = words

\* a body whose first cell is not the reference of a word sets panic when
\* it is run, and that cell is not executed
C12_Body ==
    (RunsColon /\ Body(Find(NextToken)) # <<>>
        /\ ~IsReference(Body(Find(NextToken))[1])) =>
            panic' /\ ub' = ub /\ words' = words /\ ds' = ds

\* C12: every consuming operation checks the kind of cell it receives and
\* fails instead of reinterpreting it: `@` or `!` given a top cell that is
\* not an address, and the body loop fetching a cell that is not the
\* execution reference of an existing word, set the panic flag and neither
\* dereference, assign through, nor execute that cell.
C12_TagChecking == [][C12_Address /\ C12_Body]_vars

(***************************************************************************)
(* Compile-only words reached through a body (C13)                         *)
(***************************************************************************)
StoredWords == 1
StoredBody == 1
StoredDS == 1
StoredNum == 1

LinesStored ==
    { <<T_quote, T_semi>>, <<T_quote, T_IMMEDIATE>>,
      <<T_colon, T_f, T_comma, T_semi>>, <<T_f>>, <<T_semi>>, <<T_1>>,
      <<T_drop>> }

InitStored ==
    /\ InitProc
    /\ run = [lines |-> LinesStored, words |-> StoredWords,
              body |-> StoredBody, ds |-> StoredDS, num |-> StoredNum]

SpecStored == InitStored /\ [][Next]_vars

\* a compile-only word given as a token while the engine interprets ends in
\* panic and is not entered
C13_Token ==
    Misused => panic' /\ ub' = ub /\ words' = words /\ comp_word' = NULL

\* a colon word run while the engine interprets, whose body starts with the
\* reference of a compile-only word, ends in panic and the compile-only
\* word is not entered
C13_Reference ==
    (/\ RunsColon
     /\ Body(Find(NextToken)) # <<>>
     /\ IsReference(Body(Find(NextToken))[1])
     /\ check_flag(words[Body(Find(NextToken))[1].v].flags, FLAG_comp_only))
        => panic' /\ ub' = ub /\ words' = words /\ comp_word' = NULL

\* C13: the native operation of `;`, `,` or `immediate` is entered only
\* when a compile target exists, whichever path leads to it (top-level
\* token, immediate dispatch, or an execution reference stored in a
\* compiled body and run later); every attempt while interpreting ends in
\* the panic condition instead.
C13_CompileOnly == [][C13_Token /\ C13_Reference]_vars

(***************************************************************************)
(* `value ,` inside a definition (C14)                                     *)
(***************************************************************************)
EmitWords == 1
EmitBody == 3
EmitDS == 1
EmitNum == 3

LinesEmit ==
    { <<T_colon, T_f>>, <<T_1, T_comma>>, <<T_semi>>, <<T_3>>, <<T_drop>>,
      <<T_f>> }

InitEmit ==
    /\ InitProc
    /\ run = [lines |-> LinesEmit, words |-> EmitWords, body |-> EmitBody,
              ds |-> EmitDS, num |-> EmitNum]

SpecEmit == InitEmit /\ [][Next]_vars

\* run_source on the line `value ,`, from the current state
Emit(value) == run_source(P, Join(<<value, T_comma>>), Oracle1)

\* C14: inside a definition, the token pair `value ,` appends value as one
\* raw cell (no push marker in front of it) to the body of the word being
\* compiled; `,` pops the value it appends and the body grows by exactly
\* that one cell.
C14_Emission ==
    (LoopDone /\ Alive(P) /\ comp_word # NULL) =>
        \A value \in {T_1, T_3} :
            LET r == Emit(value)
            IN /\ r.words[comp_word].colon.contents
                     = Append(Body(comp_word), value_read(value, Len(value)).val)
               /\ r.ds.contents = ds.contents
               /\ ~r.panic

(***************************************************************************)
(* Dispatch while compiling (C15)                                          *)
(***************************************************************************)
DispatchWords == 2
DispatchBody == 3
DispatchDS == 1
DispatchNum == 3

LinesDispatch ==
    { <<T_colon, T_g, T_1, T_IMMEDIATE, T_semi>>, <<T_colon, T_f>>, <<T_g>>,
      <<T_dup, T_3>>, <<T_semi>> }

InitDispatch ==
    /\ InitProc
    /\ run = [lines |-> LinesDispatch, words |-> DispatchWords,
              body |-> DispatchBody, ds |-> DispatchDS, num |-> DispatchNum]

SpecDispatch == InitDispatch /\ [][Next]_vars

\* the next turn of the loop takes a token while a definition is open
Compiles ==
    /\ ~LoopDone
    /\ comp_word # NULL
    /\ NextToken # <<>>

\* the step appends the cells cs to the body of the target and changes
\* nothing else of the words, the dictionary or the data stack
Appends(cs) ==
    /\ comp_word' = comp_word
    /\ Len(words') = Len(words)
    /\ dict' = dict
    /\ ds' = ds
    /\ \A w \in 1..Len(words) :
          IF w = comp_word
          THEN /\ words'[w].colon.contents = Body(w) \o cs
               /\ words'[w].name = words[w].name
               /\ words'[w].flags = words[w].flags
               /\ words'[w].prev = words[w].prev
          ELSE words'[w] = words[w]

\* a known immediate word is run at once: a colon word leaves the data stack
\* its invocation leaves, `;` closes the definition, `immediate` marks it;
\* no reference to the word is appended
C15_Immediate ==
    (/\ Compiles /\ Find(NextToken) # NULL
     /\ check_flag(words[Find(NextToken)].flags, FLAG_immediate)) =>
        LET w == Find(NextToken)
        IN /\ words'[comp_word].colon.contents
                 # Append(Body(comp_word), Xt(w))
           /\ ~check_flag(words[w].flags, FLAG_code) =>
                 /\ ds'.contents = Invoke(w, ds.contents)
                 /\ words'[comp_word].colon = words[comp_word].colon
           /\ words[w].code = "w_end" => comp_word' = NULL
           /\ words[w].code = "w_immediate" =>
                 check_flag(words'[comp_word].flags, FLAG_immediate)

\* a known word that is not immediate is not run: its reference is appended
C15_Deferred ==
    (/\ Compiles /\ Find(NextToken) # NULL
     /\ ~check_flag(words[Find(NextToken)].flags, FLAG_immediate)) =>
        Appends(<<Xt(Find(NextToken))>>)

\* a literal appends the push marker and then the literal
C15_Literal ==
    (/\ Compiles /\ Find(NextToken) = NULL
     /\ value_read(NextToken, Len(NextToken)).ok) =>
        Appends(<<Xt(W_PUSH), value_read(NextToken, Len(NextToken)).val>>)

\* C15: while compiling, a known immediate word is executed at once and
\* nothing is appended for it; a known non-immediate word is not executed
\* and exactly one cell (its execution reference) is appended to the
\* target's body; a literal appends exactly two cells (the push marker,
\* then the literal); in the last two cases the data stack, the dictionary
\* chain and every other word's body are unchanged.
C15_CompileDispatch ==
    [][C15_Immediate /\ C15_Deferred /\ C15_Literal]_vars

\* the literal 3 has just been compiled behind a dup into the open f, and
\* the 1 on the data stack was left by the immediate g
C15_Witness ==
    /\ comp_word \in UserWords /\ ~panic
    /\ scan_peek_text(scan) = T_3
    /\ words[comp_word].name = T_f
    /\ Body(comp_word) = <<Xt(Find(T_dup)), Xt(W_PUSH), Num(3)>>
    /\ Find(T_g) # NULL /\ check_flag(words[Find(T_g)].flags, FLAG_immediate)
    /\ ds.contents = <<Num(1)>>

(***************************************************************************)
(* The cursor over an invocation (C16)                                     *)
(***************************************************************************)
CursorWords == 2
CursorBody == 3
CursorDS == 2
CursorNum == 3

T_exit == <<"e","x","i","t">>

LinesCursor ==
    { <<T_colon, T_f, T_exit, T_1, T_semi>>, <<T_colon, T_f, T_1, T_semi>>,
      <<T_colon, T_g, T_f, T_3, T_semi>>, <<T_g>>, <<T_f>>, <<T_drop>>,
      <<T_exit>> }

InitCursor ==
    /\ InitProc
    /\ run = [lines |-> LinesCursor, words |-> CursorWords,
              body |-> CursorBody, ds |-> CursorDS, num |-> CursorNum]

SpecCursor == InitCursor /\ [][Next]_vars

\* the closed colon words
Colons ==
    {w \in UserWords : ~check_flag(words[w].flags, FLAG_code) /\ ~Hidden(w)}

\* the values a caller's cursor may have: stopped, or on a cell of a body
Cursors ==
    {IP_NULL} \cup {<<w, i>> : w \in Colons, i \in 1..CursorBody}

\* between the turns of the loop the cursor is the sentinel
C16_TopLevel == ip = IP_NULL

\* the invocation of a colon word returns with the cursor it was entered
\* with
C16_Restored ==
    \A w \in Colons : \A c \in Cursors :
        LET r == execute_word([P EXCEPT !.ip = c], w, Oracle1, MaxCallDepth)
        IN Alive(r) => r.ip = c

\* a caller whose body is `f n` goes on to push n after f has returned,
\* whether f stopped at an exit in front of its literal or ran to its end
C16_Resumes ==
    \A g, f \in Colons :
        (/\ Len(Body(g)) = 3 /\ Len(Body(f)) >= 2
         /\ Body(g)[1] = Xt(f) /\ Body(g)[2] = Xt(W_PUSH)
         /\ Alive(P)) =>
            /\ (Body(f)[1] = Xt(W_EXIT)) =>
                  Invoke(g, ds.contents) = Append(ds.contents, Body(g)[3])
            /\ (Len(Body(f)) = 2 /\ Body(f)[1] = Xt(W_PUSH)) =>
                  Invoke(g, ds.contents)
                      = ds.contents \o <<Body(f)[2], Body(g)[3]>>

\* C16: when the invocation of a colon word returns, whether its cursor ran
\* past the end of the body or exit set it to the stopped sentinel, the
\* instruction cursor equals its value just before the invocation; hence
\* exit inside a nested word ends only that innermost word and the caller
\* resumes at its own next instruction, and at top level the cursor is the
\* sentinel again.
C16_Cursor == C16_TopLevel /\ C16_Restored /\ C16_Resumes

\* g, whose body calls an f that exits at once, has just run and left its
\* own 3
C16_Witness ==
    /\ ~panic /\ scan_peek_text(scan) = T_g /\ scan.offset = 1
    /\ Find(T_g) \in Colons /\ Find(T_f) \in Colons
    /\ Body(Find(T_g)) = <<Xt(Find(T_f)), Xt(W_PUSH), Num(3)>>
    /\ Body(Find(T_f)) = <<Xt(W_EXIT), Xt(W_PUSH), Num(1)>>
    /\ ds.contents = <<Num(3)>>

(***************************************************************************)
(* Panic inside a running word (C17)                                       *)
(***************************************************************************)
StopWords == 2
StopBody == 3
StopDS == 2
StopNum == 1

LinesStop ==
    { <<T_colon, T_f, T_drop, T_1, T_semi>>, <<T_colon, T_g, T_f, T_1, T_semi>>,
      <<T_f>>, <<T_g>>, <<T_1>>, <<T_drop>> }

InitStop ==
    /\ InitProc
    /\ run = [lines |-> LinesStop, words |-> StopWords, body |-> StopBody,
              ds |-> StopDS, num |-> StopNum]

SpecStop == InitStop /\ [][Next]_vars

\* C17: when an instruction inside a running compiled body sets the panic
\* flag, the flag is checked before the next step and the remaining
\* instructions of that body, and of the bodies that called it, are not
\* executed: a word whose first instruction is a drop, run on the empty
\* stack, sets panic and no data-stack, dictionary or storage change
\* follows.
C17_PanicStops ==
    [][(/\ RunsColon
        /\ ds_count(ds) = 0
        /\ Body(Find(NextToken)) # <<>>
        /\ IsReference(Body(Find(NextToken))[1])
        /\ words[Body(Find(NextToken))[1].v].code = "w_drop")
           => panic' /\ ds' = ds /\ words' = words /\ dict' = dict]_vars

(***************************************************************************)
(* Bodies after their definition (C18)                                     *)
(***************************************************************************)
FrozenWords == 2
FrozenBody == 2
FrozenDS == 2
FrozenNum == 1

LinesFrozen ==
    { <<T_variable, T_v>>, <<T_1, T_v, T_store>>, <<T_0, T_1, T_store>>,
      <<T_colon, T_f, T_1, T_semi>>, <<T_1, T_constant, T_g>> }

InitFrozen ==
    /\ InitProc
    /\ run = [lines |-> LinesFrozen, words |-> FrozenWords,
              body |-> FrozenBody, ds |-> FrozenDS, num |-> FrozenNum]

SpecFrozen == InitFrozen /\ [][Next]_vars

\* the words whose definition is over: closed by `;`, or made by constant
\* or variable
Closed == {w \in UserWords : ~Hidden(w)}

\* C18: once a colon definition has been closed by `;`, or a word has been
\* created by constant or variable, no later sequence of tokens changes the
\* number of cells in its body, and the only cell of any closed body whose
\* content can change is the trailing storage cell of a variable, written
\* through `!`.
C18_Frozen ==
    [][\A w \in Closed :
          /\ Len(words'[w].colon.contents) = Len(Body(w))
          /\ \A i \in 1..Len(Body(w)) :
                words'[w].colon.contents[i] # Body(w)[i] =>
                    IsVariable(w) /\ i = Len(Body(w))]_vars

(***************************************************************************)
(* What an underflowing primitive leaves behind (C19)                      *)
(***************************************************************************)
EffectWords == 1
EffectBody == 1
EffectDS == 2
EffectNum == 1

LinesEffect ==
    { <<T_1>>, <<T_dup>>, <<T_swap>>, <<T_plus>>, <<T_constant, T_f>>,
      <<T_variable, T_v>>, <<T_v, T_store>>, <<T_colon, T_f, T_comma>> }

InitEffect ==
    /\ InitProc
    /\ run = [lines |-> LinesEffect, words |-> EffectWords,
              body |-> EffectBody, ds |-> EffectDS, num |-> EffectNum]

SpecEffect == InitEffect /\ [][Next]_vars

\* the cells the native function fn pops
Operands(fn) ==
    CASE fn \in {"w_dup", "w_drop", "w_fetch", "w_print", "w_constant",
                 "w_compile"} -> 1
      [] fn \in {"w_swap", "w_over", "w_store"} -> 2
      [] fn \in Arithmetic \cup Comparison \cup Logical -> 2
      [] fn = "w_rot" -> 3
      [] OTHER -> 0

\* the next turn of the loop runs a primitive, at the top level or as an
\* immediate word inside a definition, on fewer cells than it pops
Starved ==
    /\ ~LoopDone
    /\ Find(NextToken) # NULL
    /\ check_flag(words[Find(NextToken)].flags, FLAG_code)
    /\ IF comp_word = NULL
       THEN ~check_flag(words[Find(NextToken)].flags, FLAG_comp_only)
       ELSE check_flag(words[Find(NextToken)].flags, FLAG_immediate)
    /\ ds_count(ds) < Operands(words[Find(NextToken)].code)

\* C19: a primitive that reports stack underflow has no effect beyond
\* setting the panic flag and consuming the operands that were present: the
\* stack after it is a prefix of the stack before it, no word is created,
\* no cell is appended to the compile target and no storage is written.
C19_NoEffect ==
    [][Starved =>
          /\ panic'
          /\ Len(ds'.contents) <= Len(ds.contents)
          /\ ds'.contents = SubSeq(ds.contents, 1, Len(ds'.contents))
          /\ words' = words
          /\ dict' = dict]_vars

(***************************************************************************)
(* How many definitions are open at once (C20)                             *)
(***************************************************************************)
OpenWords == 3
OpenBody == 1
OpenDS == 1
OpenNum == 1

LinesOpen ==
    { <<T_colon, T_g, T_colon, T_IMMEDIATE, T_semi>>,
      <<T_colon, T_f, T_g, T_w>>, <<T_colon, T_f>>, <<T_semi>>,
      <<T_g, T_w>>, <<T_1>>, <<T_drop>> }

InitOpen ==
    /\ InitProc
    /\ run = [lines |-> LinesOpen, words |-> OpenWords,
              body |-> OpenBody, ds |-> OpenDS, num |-> OpenNum]

SpecOpen == InitOpen /\ [][Next]_vars

\* C20: at most one definition is open: in every reachable state every
\* hidden colon word of the dictionary is the current compile target, so
\* no user-defined word is hidden while the engine is interpreting.
C20_OneOpen ==
    \A w \in UserWords : Hidden(w) => comp_word = w

(***************************************************************************)
(* Termination (C21)                                                       *)
(***************************************************************************)
LoopWords == 2
LoopBody == 2
LoopDS == 2
LoopNum == 1

LinesLoop ==
    { <<T_variable, T_v>>, <<T_quote, T_v, T_quote, T_v, T_store>>,
      <<T_1>>, <<T_drop>>, <<T_colon, T_f, T_1, T_semi>>, <<T_f>>,
      <<T_quote, T_f>> }

InitLoop ==
    /\ InitProc
    /\ run = [lines |-> LinesLoop, words |-> LoopWords,
              body |-> LoopBody, ds |-> LoopDS, num |-> LoopNum]

SpecLoop == InitLoop /\ [][Next]_vars

RECURSIVE CalledFrom(_, _)
\* the words the loop of execute_word invokes from cell i of body on: the
\* cell behind _push is skipped and exit ends the loop
CalledFrom(body, i) ==
    IF i > Len(body) THEN {}
    ELSE LET operation == as_xt(body[i])
         IN IF operation \notin 1..Len(words) THEN {}
            ELSE IF words[operation].code = "w_exit" THEN {operation}
            ELSE IF words[operation].code = "w_push"
            THEN {operation} \cup CalledFrom(body, i + 2)
            ELSE {operation} \cup CalledFrom(body, i + 1)

RECURSIVE ReachedIn(_, _)
\* the words reached from the words S in at most n further invocations
ReachedIn(S, n) ==
    IF n = 0 THEN S
    ELSE ReachedIn(S \cup UNION {CalledFrom(Body(v), 1) : v \in S}, n - 1)

\* the words the execution of w reaches, directly or through other words
Reached(w) == ReachedIn(CalledFrom(Body(w), 1), Len(words))

\* C21: execution always terminates: no sequence of chunks builds a colon
\* word whose execution reaches itself, directly or through other words,
\* and the run of every chunk finishes, no step of it going on for ever.
C21_Terminates ==
    /\ \A w \in UserWords : w \notin Reached(w)
    /\ ub # UB_hang

====
